---- MODULE Spec2Model ----
(***************************************************************************)
(* A model of getConfig (packages/af-webpack/src/getConfig.js): the        *)
(* synthesis of a webpack configuration from the options record, the       *)
(* process environment and what the file system / module resolver answer.  *)
(* One call of getConfig is run step by step, in the order of the source.  *)
(***************************************************************************)
EXTENDS Integers, Sequences, FiniteSets, TLC

VARIABLES
    pc,             \* the position of the call inside getConfig
    opts,           \* the argument of getConfig
    env,            \* process.env as read by getConfig
    fs,             \* what the file system and the module resolver answer
    cssRules,       \* const cssRules
    eslintOptions,  \* const eslintOptions
    config,         \* const config
    error,          \* the exception that left getConfig, if any
    hookCalls       \* number of calls of applyWebpackConfig

vars == <<pc, opts, env, fs, cssRules, eslintOptions, config, error, hookCalls>>

----------------------------------------------------------------------------
(* JavaScript values *)

Undefined == [type |-> "undefined"]
Null == [type |-> "null"]
Str(s) == [type |-> "string", val |-> s]
Bool(b) == [type |-> "boolean", val |-> b]
Obj(f) == [type |-> "object", val |-> f]
Arr(s) == [type |-> "array", val |-> s]

\* ToBoolean: undefined, null, false and "" are falsy; objects and arrays
\* (also empty ones) are truthy.
Truthy(v) ==
    IF v.type = "boolean" THEN v.val
    ELSE IF v.type = "string" THEN v.val # ""
    ELSE v.type \in {"object", "array"}

\* An object literal without keys.
EmptyObj == Obj([k \in {} |-> Undefined])

\* obj.key: undefined when the key is absent, a TypeError (modelled by the
\* callers through CanRead) when obj is undefined or null.
CanRead(v) == v.type \notin {"undefined", "null"}

Get(v, key) ==
    IF v.type = "object" /\ key \in DOMAIN v.val THEN v.val[key] ELSE Undefined

\* { ...a, ...b } for two object values.
Spread(a, b) ==
    Obj([k \in (DOMAIN a.val) \cup (DOMAIN b.val) |->
            IF k \in DOMAIN b.val THEN b.val[k] ELSE a.val[k]])

\* Whether string s contains the substring sub.
Contains(s, sub) ==
    \E i \in 1..(Len(s) - Len(sub) + 1) : SubSeq(s, i, i + Len(sub) - 1) = sub

\* path.join of a directory and a relative name.
Join(dir, name) == dir \o "/" \o name

\* JSON.stringify of a string.
JSONString(s) == "\"" \o s \o "\""

----------------------------------------------------------------------------
(* The pieces of getConfig, as operators of its inputs *)

\* const isDev
IsDev(e) == e.NODE_ENV = Str("development")

\* require.resolve(name): whether the module resolver finds the module.
Resolvable(f, name) == name \notin f.unresolvable

\* cssModulesConfig: empty when CSS modules are disabled.
CssModulesOn(o, cssModules) == cssModules /\ ~Truthy(o.disableCSSModules)

\* getCSSLoader without the probe of sass-loader.
GetCSSLoaderNoProbe(o, f, l) ==
    << [loader |-> "style-loader"],
       [loader |-> "css-loader", modules |-> CssModulesOn(o, l.cssModules)],
       [loader |-> "postcss-loader"] >>
    \o (IF l.less THEN << [loader |-> "less-loader"] >> ELSE << >>)
    \o (IF l.sass THEN << [loader |-> "sass-loader"] >> ELSE << >>)

\* function getCSSLoader: the loader chain of one style rule. l is the
\* argument {cssModules, less, sass}.
GetCSSLoader(o, f, l) ==
    LET hasSassLoader == Resolvable(f, "sass-loader") IN
    << [loader |-> "style-loader"],
       [loader |-> "css-loader", modules |-> CssModulesOn(o, l.cssModules)],
       [loader |-> "postcss-loader"] >>
    \o (IF l.less THEN << [loader |-> "less-loader"] >> ELSE << >>)
    \o (IF l.sass /\ hasSassLoader THEN << [loader |-> "sass-loader"] >> ELSE << >>)

Absent == "absent"

\* One entry of module.rules.
Rule(test, include, exclude, enforce, loader, use) ==
    [test |-> test, include |-> include, exclude |-> exclude,
     enforce |-> enforce, loader |-> loader, use |-> use]

\* A `use` that is a plain loader chain, no `use` at all, and the value of
\* ExtractTextPlugin.extract({ use: chain }).
Chain(c) == [wrapper |-> "none", chain |-> c]
NoUse == [wrapper |-> Absent, chain |-> << >>]
Extract(c) == [wrapper |-> "extract", chain |-> c]

StyleRule(test, inNodeModules, o, f, l) ==
    Rule(test,
         IF inNodeModules THEN "node_modules" ELSE Absent,
         IF inNodeModules THEN Absent ELSE "node_modules",
         Absent, Absent, Chain(GetCSSLoader(o, f, l)))

\* const cssRules, as first built.
CssRules(o, f) ==
    << StyleRule("css", FALSE, o, f, [cssModules |-> TRUE, less |-> FALSE, sass |-> FALSE]),
       StyleRule("css", TRUE, o, f, [cssModules |-> FALSE, less |-> FALSE, sass |-> FALSE]),
       StyleRule("less", FALSE, o, f, [cssModules |-> TRUE, less |-> TRUE, sass |-> FALSE]),
       StyleRule("less", TRUE, o, f, [cssModules |-> FALSE, less |-> TRUE, sass |-> FALSE]),
       StyleRule("sass|scss", FALSE, o, f, [cssModules |-> TRUE, less |-> FALSE, sass |-> TRUE]),
       StyleRule("sass|scss", TRUE, o, f, [cssModules |-> FALSE, less |-> FALSE, sass |-> TRUE]) >>

\* The modules the six getCSSLoader calls resolve outside their try block.
CssRequires == {"style-loader", "css-loader", "postcss-loader", "less-loader"}

\* The rewrite without the slice: the injector stays in the wrapped chain.
ExtractRuleKeepsInjector(rule) == [rule EXCEPT !.use = Extract(rule.use.chain)]

\* rule.use = ExtractTextPlugin.extract({ use: rule.use.slice(1) })
ExtractRule(rule) ==
    [rule EXCEPT !.use = Extract(SubSeq(rule.use.chain, 2, Len(rule.use.chain)))]

\* if (!isDev) cssRules.forEach(...)
ExtractCssRules(e, rules) ==
    IF ~IsDev(e) THEN [i \in 1..Len(rules) |-> ExtractRule(rules[i])] ELSE rules

\* jsHash without the test of isDev.
JsHashAnyMode(o, e) == IF Truthy(o.hash) THEN ".[chunkhash:8]" ELSE ""

\* const jsHash, const cssHash
JsHash(o, e) == IF ~IsDev(e) /\ Truthy(o.hash) THEN ".[chunkhash:8]" ELSE ""
CssHash(o, e) == IF ~IsDev(e) /\ Truthy(o.hash) THEN ".[contenthash:8]" ELSE ""

\* const babelUse
BabelUse == << [loader |-> "debugLoader.js"], [loader |-> "babel-loader"] >>

BundledEslint == "af-webpack/node_modules/eslint"
UserEslint(o) == Join(o.cwd.val, "node_modules/eslint")

\* const eslintOptions, as first built.
EslintDefaults ==
    [formatter |-> "eslintFormatter",
     baseConfig |-> Obj([k \in {"extends"} |-> Arr(<< "eslint-config-umi" >>)]),
     ignore |-> FALSE,
     eslintPath |-> BundledEslint,
     useEslintrc |-> FALSE]

\* The modules resolved while babelUse and eslintOptions are built.
LintRequires == {"babel-loader", "eslint-config-umi", "eslint"}

\* if (dependencies.eslint || devDependencies)
WantsUserEslint(dependencies, devDependencies) ==
    Truthy(Get(dependencies, "eslint")) \/ Truthy(devDependencies)

\* The try block "use the user's eslint": every exception inside it (an
\* unreadable package.json, reading .eslint of an undefined dependencies,
\* a failed resolveSync) leaves eslintOptions as it was.
UseUserEslint(eo, o, f) ==
    IF ~f.pkgReadable THEN eo
    ELSE LET dependencies == Get(f.pkg, "dependencies")
             devDependencies == Get(f.pkg, "devDependencies")
         IN  IF ~CanRead(dependencies) THEN eo
             ELSE IF WantsUserEslint(dependencies, devDependencies)
                  THEN IF f.eslintResolves
                       THEN [eo EXCEPT !.eslintPath = UserEslint(o)]
                       ELSE eo
                  ELSE eo

\* The merge with the spread the other way round: the defaults win.
MergeUserRcDefaultsWin(eo, userRc) ==
    IF Truthy(Get(userRc, "extends"))
    THEN [eo EXCEPT !.useEslintrc = TRUE, !.baseConfig = Bool(FALSE), !.ignore = TRUE]
    ELSE [eo EXCEPT !.baseConfig = Spread(userRc, eo.baseConfig)]

\* The body of the try block that reads the user's .eslintrc, for a userRc
\* that was read.
MergeUserRc(eo, userRc) ==
    IF Truthy(Get(userRc, "extends"))
    THEN [eo EXCEPT !.useEslintrc = TRUE, !.baseConfig = Bool(FALSE), !.ignore = TRUE]
    ELSE [eo EXCEPT !.baseConfig = Spread(eo.baseConfig, userRc)]

\* if (existsSync(resolve('.eslintrc'))) { try { ... } catch (e) { debug(e) } }
ReadUserEslintrc(eo, f) ==
    IF ~f.rcExists THEN eo
    ELSE IF ~f.rcParses \/ ~CanRead(f.rc) THEN eo
    ELSE MergeUserRc(eo, f.rc)

\* The tslint rule guarded by the flag of the eslint rule.
TsLintRulesByEslintFlag(o, e) ==
    IF Truthy(e.DISABLE_ESLINT) THEN << >>
    ELSE << Rule("tsx?", o.cwd.val, "node_modules", "pre", Absent,
                 Chain(<< [loader |-> "tslint-loader"] >>)) >>

\* The two enforce: 'pre' rules of module.rules; each is spread in unless
\* its disable flag is truthy.
TsLintRules(o, e) ==
    IF Truthy(e.DISABLE_TSLINT) THEN << >>
    ELSE << Rule("tsx?", o.cwd.val, "node_modules", "pre", Absent,
                 Chain(<< [loader |-> "tslint-loader"] >>)) >>

EsLintRules(o, e, eo) ==
    IF Truthy(e.DISABLE_ESLINT) THEN << >>
    ELSE << Rule("js|jsx", o.cwd.val, "node_modules", "pre", Absent,
                 Chain(<< [loader |-> "eslint-loader", options |-> eo] >>)) >>

\* opts.extraBabelIncludes.map(include => ...)
ExtraBabelRules(o) ==
    IF Truthy(o.extraBabelIncludes)
    THEN [i \in 1..Len(o.extraBabelIncludes.val) |->
            Rule("js|jsx", Join(o.cwd.val, o.extraBabelIncludes.val[i]),
                 Absent, Absent, Absent, Chain(BabelUse))]
    ELSE << >>

\* module.rules with the markup rule spread in before the extra directories.
RulesMarkupFirst(o, e, eo, css) ==
    TsLintRules(o, e)
    \o EsLintRules(o, e, eo)
    \o << Rule(Absent, Absent, "html,json,js|jsx|ts|tsx,css|less|scss|sass",
               Absent, "url-loader", NoUse),
          Rule("js|jsx", Absent, "node_modules", Absent, Absent, Chain(BabelUse)),
          Rule("ts|tsx", Absent, "node_modules", Absent, Absent,
               Chain(BabelUse \o << [loader |-> "awesome-typescript-loader"] >>)) >>
    \o << Rule("html", Absent, Absent, Absent, "file-loader", NoUse) >>
    \o ExtraBabelRules(o)
    \o css

\* module.rules
Rules(o, e, eo, css) ==
    TsLintRules(o, e)
    \o EsLintRules(o, e, eo)
    \o << Rule(Absent, Absent, "html,json,js|jsx|ts|tsx,css|less|scss|sass",
               Absent, "url-loader", NoUse),
          Rule("js|jsx", Absent, "node_modules", Absent, Absent, Chain(BabelUse)),
          Rule("ts|tsx", Absent, "node_modules", Absent, Absent,
               Chain(BabelUse \o << [loader |-> "awesome-typescript-loader"] >>)) >>
    \o ExtraBabelRules(o)
    \o << Rule("html", Absent, Absent, Absent, "file-loader", NoUse) >>
    \o css

\* The modules resolved while the config literal is built.
ConfigRequires(e) ==
    {"@babel/runtime/package", "url-loader", "awesome-typescript-loader", "file-loader"}
    \cup (IF Truthy(e.DISABLE_TSLINT) THEN {} ELSE {"tslint-loader"})
    \cup (IF Truthy(e.DISABLE_ESLINT) THEN {} ELSE {"eslint-loader"})

\* stringifyObject (./stringifyObject): every value of the object replaced
\* by its JSON text, under the same key.
StringifyObject(obj) ==
    Obj([k \in DOMAIN obj.val |-> Str(JSONString(obj.val[k].val))])

Plugin(name) == [name |-> name]

\* const commonsPlugins
CommonsPlugins(o) ==
    IF Truthy(o.commons)
    THEN [i \in 1..Len(o.commons.val) |->
            [name |-> "CommonsChunkPlugin", common |-> o.commons.val[i]]]
    ELSE << >>

\* const outputPath
OutputPath(o) ==
    IF Truthy(o.outputPath) THEN o.outputPath.val ELSE Join(o.cwd.val, "dist")

\* const copyPlugins
CopyPlugins(o, f) ==
    (IF Truthy(o.copy) THEN << [name |-> "CopyWebpackPlugin", from |-> "opts.copy"] >>
     ELSE << >>)
    \o (IF f.publicExists
        THEN << [name |-> "CopyWebpackPlugin", from |-> Join(o.cwd.val, "public")] >>
        ELSE << >>)

\* The argument of new webpack.DefinePlugin.
Definitions(o, e) ==
    Spread(
        Spread(
            Obj([k \in {"process.env.NODE_ENV"} |->
                    Str(JSONString(IF IsDev(e) THEN "development" ELSE "production"))]),
            IF Truthy(e.SOCKET_SERVER)
            THEN Obj([k \in {"process.env.SOCKET_SERVER"} |->
                        Str(JSONString(e.SOCKET_SERVER.val))])
            ELSE EmptyObj),
        StringifyObject(IF Truthy(o.define) THEN o.define ELSE EmptyObj))

\* The base set of plugins, chosen by isDev.
BasePlugins(o, e) ==
    IF IsDev(e)
    THEN << Plugin("HotModuleReplacementPlugin"),
            Plugin("WatchMissingNodeModulesPlugin"),
            Plugin("SystemBellWebpackPlugin") >>
         \o (IF Truthy(o.devtool) THEN << >>
             ELSE << Plugin("SourceMapDevToolPlugin") >>)
    ELSE << Plugin("OccurrenceOrderPlugin"),
            Plugin("ModuleConcatenationPlugin"),
            [name |-> "ExtractTextPlugin",
             filename |-> "[name]" \o CssHash(o, e) \o ".css"] >>
         \o (IF Truthy(o.manifest) THEN << Plugin("ManifestPlugin") >> ELSE << >>)

\* new webpack.optimize.UglifyJsPlugin, unless isDev or NO_COMPRESS.
UglifyPlugins(o, e) ==
    IF IsDev(e) \/ Truthy(e.NO_COMPRESS) THEN << >>
    ELSE << [name |-> "UglifyJsPlugin", sourceMap |-> Truthy(o.devtool)] >>

\* plugins
Plugins(o, e, f) ==
    BasePlugins(o, e)
    \o UglifyPlugins(o, e)
    \o << [name |-> "DefinePlugin", definitions |-> Definitions(o, e)] >>
    \o (IF Truthy(e.ANALYZE) THEN << Plugin("BundleAnalyzerPlugin") >> ELSE << >>)
    \o << Plugin("CaseSensitivePathsPlugin"), Plugin("LoaderOptionsPlugin") >>
    \o (IF Truthy(e.TS_TYPECHECK) THEN << Plugin("ForkTsCheckerWebpackPlugin") >> ELSE << >>)
    \o (IF Truthy(o.ignoreMomentLocale) THEN << Plugin("IgnorePlugin") >> ELSE << >>)
    \o CommonsPlugins(o)
    \o CopyPlugins(o, f)

\* output.publicPath of the config literal: opts.publicPath || undefined
OptPublicPath(o) == IF Truthy(o.publicPath) THEN o.publicPath ELSE Undefined

\* const config
Config(o, e, f, eo, css) ==
    [bail |-> ~IsDev(e),
     devtool |-> IF Truthy(o.devtool) THEN o.devtool ELSE Undefined,
     output |-> [path |-> OutputPath(o),
                 pathinfo |-> IsDev(e),
                 filename |-> "[name]" \o JsHash(o, e) \o ".js",
                 publicPath |-> OptPublicPath(o),
                 chunkFilename |-> "[name]" \o JsHash(o, e) \o ".async.js"],
     rules |-> Rules(o, e, eo, css),
     plugins |-> Plugins(o, e, f),
     performance |-> IF IsDev(e) THEN "hints: false" ELSE "default"]

\* stripLastSlash (./utils): the string without its trailing separators.
RECURSIVE StripLastSlash(_)
StripLastSlash(str) ==
    IF Len(str) > 0 /\ SubSeq(str, Len(str), Len(str)) = "/"
    THEN StripLastSlash(SubSeq(str, 1, Len(str) - 1))
    ELSE str

\* The override applied only when the option left the public path unset.
EnvPublicPathUnlessOption(cfg, e) ==
    IF Truthy(e.PUBLIC_PATH) /\ cfg.output.publicPath = Undefined
    THEN [cfg EXCEPT !.output.publicPath = Str(StripLastSlash(e.PUBLIC_PATH.val) \o "/")]
    ELSE cfg

\* if (process.env.PUBLIC_PATH) config.output.publicPath = ...
EnvPublicPath(cfg, e) ==
    IF Truthy(e.PUBLIC_PATH)
    THEN [cfg EXCEPT !.output.publicPath = Str(StripLastSlash(e.PUBLIC_PATH.val) \o "/")]
    ELSE cfg

----------------------------------------------------------------------------
(* The inputs of a call *)

\* The longest opts.extraBabelIncludes and opts.commons, and the most
\* trailing separators of a public path.
MaxIncludes == 2
MaxSlashes == 2

SeqsUpTo(S, n) == UNION {[1..k -> S] : k \in 0..n}

RECURSIVE Slashes(_)
Slashes(n) == IF n = 0 THEN "" ELSE "/" \o Slashes(n - 1)

Cwds == {Undefined, Str(""), Str("/app")}
Modes == {Undefined, Str("development"), Str("production"), Str("test")}
Flags == {Undefined, Str(""), Str("1")}
Switches == {Undefined, Str("1")}
Hashes == {Undefined, Bool(FALSE), Bool(TRUE)}
Options == {Undefined, Bool(TRUE)}
Includes == {Undefined} \cup {Arr(s) : s \in SeqsUpTo({"src", "lib"}, MaxIncludes)}
Commons == {Undefined} \cup {Arr(s) : s \in SeqsUpTo({"vendor"}, MaxIncludes)}
OptPublicPaths == {Undefined, Str(""), Str("/static/")}
EnvPublicPaths ==
    {Undefined} \cup
    {Str(base \o Slashes(n)) : base \in {"", "/cdn", "//h/a"}, n \in 0..MaxSlashes}
Defines ==
    {Undefined, EmptyObj,
     Obj([k \in {"VERSION"} |-> Str("1")]),
     Obj([k \in {"process.env.NODE_ENV"} |-> Str("staging")]),
     Obj([k \in {"process.env.NODE_ENV"} |-> Str("development")])}

\* package.json: its dependencies and devDependencies sections, each absent
\* or an object.
DepSections ==
    {Undefined, EmptyObj,
     Obj([k \in {"eslint"} |-> Str("^4.0.0")]),
     Obj([k \in {"jest"} |-> Str("^22.0.0")])}
Manifest(dependencies, devDependencies) ==
    Obj([k \in {x \in {"dependencies", "devDependencies"} :
                  IF x = "dependencies" THEN dependencies # Undefined
                  ELSE devDependencies # Undefined} |->
            IF k = "dependencies" THEN dependencies ELSE devDependencies])
Manifests ==
    {[pkgReadable |-> FALSE, pkg |-> Undefined]} \cup
    {[pkgReadable |-> TRUE, pkg |-> Manifest(d, dd)] : d \in DepSections, dd \in DepSections}

\* .eslintrc: absent, unparsable, or the value readRc returns.
ExtendsValues == {Str("airbnb"), Str(""), Null, Bool(FALSE), Arr(<< >>)}
UserRules == Obj([k \in {"no-console"} |-> Str("off")])
UserRcs ==
    {Null, EmptyObj, Obj([k \in {"rules"} |-> UserRules])}
    \cup {Obj([k \in {"extends"} |-> x]) : x \in ExtendsValues}
    \cup {Obj([k \in {"extends", "rules"} |-> IF k = "extends" THEN x ELSE UserRules]) :
            x \in ExtendsValues}
RcFiles ==
    {[rcExists |-> FALSE, rcParses |-> FALSE, rc |-> Undefined],
     [rcExists |-> TRUE, rcParses |-> FALSE, rc |-> Undefined]}
    \cup {[rcExists |-> TRUE, rcParses |-> TRUE, rc |-> r] : r \in UserRcs}

DefaultOpts ==
    [cwd |-> Str("/app"), hash |-> Undefined, publicPath |-> Undefined,
     outputPath |-> Undefined, devtool |-> Undefined, manifest |-> Undefined,
     extraBabelIncludes |-> Undefined, define |-> Undefined, commons |-> Undefined,
     copy |-> Undefined, ignoreMomentLocale |-> Undefined,
     disableCSSModules |-> Undefined]

DefaultEnv ==
    [NODE_ENV |-> Undefined, DISABLE_TSLINT |-> Undefined, DISABLE_ESLINT |-> Undefined,
     NO_COMPRESS |-> Undefined, PUBLIC_PATH |-> Undefined, ANALYZE |-> Undefined,
     TS_TYPECHECK |-> Undefined, SOCKET_SERVER |-> Undefined]

DefaultFs ==
    [unresolvable |-> {}, pkgReadable |-> FALSE, pkg |-> Undefined,
     eslintResolves |-> FALSE, rcExists |-> FALSE, rcParses |-> FALSE,
     rc |-> Undefined, publicExists |-> FALSE]

\* The inputs: each group of inputs that one part of getConfig reads is
\* taken in every combination, the other inputs at their defaults.
RuleInputs ==
    {<< [DefaultOpts EXCEPT !.cwd = c, !.extraBabelIncludes = inc],
        [DefaultEnv EXCEPT !.NODE_ENV = m, !.DISABLE_TSLINT = t, !.DISABLE_ESLINT = l],
        [DefaultFs EXCEPT !.unresolvable = u] >> :
        c \in Cwds, inc \in Includes, m \in Modes, t \in Flags, l \in Flags,
        u \in {{}, {"sass-loader"}}}

StyleInputs ==
    {<< [DefaultOpts EXCEPT !.disableCSSModules = dm, !.hash = h, !.devtool = dt,
                            !.manifest = mf, !.define = df],
        [DefaultEnv EXCEPT !.NODE_ENV = m, !.NO_COMPRESS = nc],
        [DefaultFs EXCEPT !.unresolvable = u] >> :
        dm \in Options, h \in Options, dt \in {Undefined, Str("source-map")},
        mf \in {Undefined, EmptyObj}, df \in Defines, m \in Modes, nc \in Switches,
        u \in SUBSET {"less-loader", "sass-loader"}}

PluginInputs ==
    {<< [DefaultOpts EXCEPT !.commons = cm, !.copy = cp, !.ignoreMomentLocale = im],
        [DefaultEnv EXCEPT !.NODE_ENV = m, !.NO_COMPRESS = nc, !.ANALYZE = an,
                           !.TS_TYPECHECK = tc, !.SOCKET_SERVER = ss],
        [DefaultFs EXCEPT !.publicExists = pe] >> :
        cm \in Commons, cp \in Options, im \in Options, m \in Modes, nc \in Switches, an \in Switches, tc \in Switches,
        ss \in {Undefined, Str("http://localhost:8001")}, pe \in BOOLEAN}

OutputInputs ==
    {<< [DefaultOpts EXCEPT !.cwd = c, !.hash = h, !.publicPath = pp, !.outputPath = op],
        [DefaultEnv EXCEPT !.NODE_ENV = m, !.PUBLIC_PATH = ep],
        DefaultFs >> :
        c \in Cwds, h \in Hashes, pp \in OptPublicPaths,
        op \in {Undefined, Str("/app/build")},
        m \in {Undefined, Str("development"), Str("production")},
        ep \in EnvPublicPaths}

LintInputs ==
    {<< [DefaultOpts EXCEPT !.cwd = c],
        [DefaultEnv EXCEPT !.DISABLE_ESLINT = l],
        [DefaultFs EXCEPT !.pkgReadable = mf.pkgReadable, !.pkg = mf.pkg,
                          !.eslintResolves = er, !.rcExists = rc.rcExists,
                          !.rcParses = rc.rcParses, !.rc = rc.rc] >> :
        c \in {Undefined, Str("/app")}, l \in Switches, mf \in Manifests, er \in BOOLEAN, rc \in RcFiles}

\* Every module getConfig resolves, one of them at most not installed.
Modules ==
    {"style-loader", "css-loader", "postcss-loader", "less-loader", "sass-loader",
     "babel-loader", "eslint-config-umi", "eslint", "@babel/runtime/package",
     "tslint-loader", "eslint-loader", "url-loader", "awesome-typescript-loader",
     "file-loader"}

ResolveInputs ==
    {<< [DefaultOpts EXCEPT !.cwd = c],
        [DefaultEnv EXCEPT !.DISABLE_TSLINT = t, !.DISABLE_ESLINT = l],
        [DefaultFs EXCEPT !.unresolvable = u] >> :
        c \in {Undefined, Str("/app")}, t \in Switches, l \in Switches,
        u \in {{}} \cup {{m} : m \in Modules}}

Inputs ==
    RuleInputs \cup StyleInputs \cup PluginInputs \cup OutputInputs \cup LintInputs
    \cup ResolveInputs

----------------------------------------------------------------------------
(* One call of getConfig *)

Init ==
    /\ \E in \in Inputs : opts = in[1] /\ env = in[2] /\ fs = in[3]
    /\ pc = "assert"
    /\ cssRules = << >>
    /\ eslintOptions = Undefined
    /\ config = Undefined
    /\ error = "none"
    /\ hookCalls = 0

\* An exception leaves getConfig.
Throw(e) ==
    /\ pc' = "threw"
    /\ error' = e
    /\ UNCHANGED <<opts, env, fs, cssRules, eslintOptions, config, hookCalls>>

\* A require.resolve of one of the modules fails.
Missing(f, modules) == \E m \in modules : ~Resolvable(f, m)

\* The assertion testing only that opts.cwd is defined.
CwdGivenDefined(o) == o.cwd.type # "undefined"

\* assert(opts.cwd, 'opts.cwd must be specified')
CwdGiven(o) == Truthy(o.cwd)

AssertCwd ==
    /\ pc = "assert"
    /\ IF CwdGiven(opts)
       THEN /\ pc' = "cssRules"
            /\ UNCHANGED <<opts, env, fs, cssRules, eslintOptions, config, error, hookCalls>>
       ELSE Throw("AssertionError: opts.cwd must be specified")

BuildCssRules ==
    /\ pc = "cssRules"
    /\ IF Missing(fs, CssRequires)
       THEN Throw("Error: Cannot find module")
       ELSE /\ cssRules' = CssRules(opts, fs)
            /\ pc' = "extract"
            /\ UNCHANGED <<opts, env, fs, eslintOptions, config, error, hookCalls>>

ExtractCss ==
    /\ pc = "extract"
    /\ cssRules' = ExtractCssRules(env, cssRules)
    /\ pc' = "eslintOptions"
    /\ UNCHANGED <<opts, env, fs, eslintOptions, config, error, hookCalls>>

BuildEslintOptions ==
    /\ pc = "eslintOptions"
    /\ IF Missing(fs, LintRequires)
       THEN Throw("Error: Cannot find module")
       ELSE /\ eslintOptions' = EslintDefaults
            /\ pc' = "userEslint"
            /\ UNCHANGED <<opts, env, fs, cssRules, config, error, hookCalls>>

UserEslintPath ==
    /\ pc = "userEslint"
    /\ eslintOptions' = UseUserEslint(eslintOptions, opts, fs)
    /\ pc' = "eslintrc"
    /\ UNCHANGED <<opts, env, fs, cssRules, config, error, hookCalls>>

UserEslintrc ==
    /\ pc = "eslintrc"
    /\ eslintOptions' = ReadUserEslintrc(eslintOptions, fs)
    /\ pc' = "config"
    /\ UNCHANGED <<opts, env, fs, cssRules, config, error, hookCalls>>

BuildConfig ==
    /\ pc = "config"
    /\ IF Missing(fs, ConfigRequires(env))
       THEN Throw("Error: Cannot find module")
       ELSE /\ config' = Config(opts, env, fs, eslintOptions, cssRules)
            /\ pc' = "publicPath"
            /\ UNCHANGED <<opts, env, fs, cssRules, eslintOptions, error, hookCalls>>

PublicPathFromEnv ==
    /\ pc = "publicPath"
    /\ config' = EnvPublicPath(config, env)
    /\ pc' = "hook"
    /\ UNCHANGED <<opts, env, fs, cssRules, eslintOptions, error, hookCalls>>

\* return applyWebpackConfig(config): the descriptor is handed to the
\* override hook (./applyWebpackConfig) and the hook's result is returned.
ApplyWebpackConfig ==
    /\ pc = "hook"
    /\ hookCalls' = hookCalls + 1
    /\ pc' = "returned"
    /\ UNCHANGED <<opts, env, fs, cssRules, eslintOptions, config, error>>

Next ==
    \/ AssertCwd
    \/ BuildCssRules
    \/ ExtractCss
    \/ BuildEslintOptions
    \/ UserEslintPath
    \/ UserEslintrc
    \/ BuildConfig
    \/ PublicPathFromEnv
    \/ ApplyWebpackConfig

Spec == Init /\ [][Next]_vars

----------------------------------------------------------------------------
(* Properties *)

Returned == pc = "returned"
Threw == pc = "threw"

\* process.env.NODE_ENV is exactly 'development'.
DevMode == env.NODE_ENV.type = "string" /\ env.NODE_ENV.val = "development"

\* An environment flag or an option is set to something truthy.
FlagSet(v) == v.type = "string" /\ v.val # ""
OptionSet(v) == (v.type = "boolean" /\ v.val) \/ v.type \in {"object", "array"}
                    \/ (v.type = "string" /\ v.val # "")

\* The tier of a rule, read off the rule itself.
Tier(r) ==
    IF r.enforce = "pre" THEN 1
    ELSE IF r.loader = "url-loader" THEN 2
    ELSE IF r.test \in {"js|jsx", "ts|tsx"} /\ r.include = Absent THEN 3
    ELSE IF r.test = "js|jsx" THEN 4
    ELSE IF r.loader = "file-loader" /\ r.test = "html" THEN 5
    ELSE IF r.test \in {"css", "less", "sass|scss"} THEN 6
    ELSE 0

TierAt(k) == {i \in 1..Len(config.rules) : Tier(config.rules[i]) = k}

Min(S) == CHOOSE x \in S : \A y \in S : x <= y

DeclaredIncludes ==
    IF opts.extraBabelIncludes.type = "array" THEN opts.extraBabelIncludes.val ELSE << >>

LoaderNames(chain) == [i \in 1..Len(chain) |-> chain[i].loader]

\* C1: the rule list of a returned descriptor is ordered by tier: the
\* pre-pass rules, the one static-asset rule, the script rule and the
\* typed-script rule, one rule per declared extra directory in declaration
\* order, the one markup rule, the six style rules; no rule of a later tier
\* precedes a rule of an earlier one.
C1_TierOrder ==
    Returned =>
        LET rs == config.rules IN
        /\ \A i \in 1..Len(rs) : Tier(rs[i]) \in 1..6
        /\ \A i, j \in 1..Len(rs) : i < j => Tier(rs[i]) <= Tier(rs[j])
        /\ Cardinality(TierAt(1)) <= 2
        /\ Cardinality(TierAt(2)) = 1
        /\ Cardinality(TierAt(3)) = 2
        /\ rs[Min(TierAt(3))].test = "js|jsx"
        /\ rs[Min(TierAt(3)) + 1].test = "ts|tsx"
        /\ Cardinality(TierAt(4)) = Len(DeclaredIncludes)
        /\ \A k \in 1..Len(DeclaredIncludes) :
                rs[Min(TierAt(3)) + 1 + k].include
                    = opts.cwd.val \o "/" \o DeclaredIncludes[k]
        /\ Cardinality(TierAt(5)) = 1
        /\ Cardinality(TierAt(6)) = 6

C1_Witness ==
    /\ Returned
    /\ DeclaredIncludes = << "src", "lib" >>
    /\ Cardinality(TierAt(1)) = 2
    /\ Cardinality(TierAt(4)) = 2

IsStyleRule(r) == r.test \in {"css", "less", "sass|scss"}
StyleRulesOf(cfg) == SelectSeq(cfg.rules, IsStyleRule)

\* What follows the runtime injector in the chain of a style rule.
ExpectedRest(r) ==
    << "css-loader", "postcss-loader" >>
    \o (IF r.test = "less" THEN << "less-loader" >> ELSE << >>)
    \o (IF r.test = "sass|scss" /\ "sass-loader" \notin fs.unresolvable
        THEN << "sass-loader" >> ELSE << >>)

\* C2: outside development mode each of the six style rules has its runtime
\* injector replaced by the extraction wrapper around the rest of its
\* original chain in the same order; in development mode no style rule is
\* rewritten and every chain starts with the runtime injector.
C2_ExtractRewrite ==
    Returned =>
        LET srs == StyleRulesOf(config) IN
        /\ Len(srs) = 6
        /\ \A i \in 1..Len(srs) :
            IF DevMode
            THEN /\ srs[i].use.wrapper = "none"
                 /\ LoaderNames(srs[i].use.chain)
                        = << "style-loader" >> \o ExpectedRest(srs[i])
            ELSE /\ srs[i].use.wrapper = "extract"
                 /\ LoaderNames(srs[i].use.chain) = ExpectedRest(srs[i])
                 /\ srs[i].use.chain = Tail(CssRules(opts, fs)[i].use.chain)

C2_Witness ==
    /\ Returned
    /\ env.NODE_ENV = Str("test")
    /\ fs.unresolvable = {}
    /\ StyleRulesOf(config)[6].use.wrapper = "extract"
    /\ Len(StyleRulesOf(config)[6].use.chain) = 3

ExtractPlugins == SelectSeq(config.plugins, LAMBDA p : p.name = "ExtractTextPlugin")

\* C3: in development mode the script, chunk and stylesheet filename
\* templates hold no hash placeholder even when opts.hash is set; the same
\* when opts.hash is not set; outside development mode with opts.hash set
\* the script and chunk templates hold the script hash placeholder and the
\* stylesheet filename holds another, content-based one.
C3_HashSuffix ==
    Returned =>
        LET out == config.output
            css == ExtractPlugins
        IN  IF ~DevMode /\ OptionSet(opts.hash)
            THEN /\ out.filename = "[name].[chunkhash:8].js"
                 /\ out.chunkFilename = "[name].[chunkhash:8].async.js"
                 /\ Len(css) = 1
                 /\ css[1].filename = "[name].[contenthash:8].css"
                 /\ ~Contains(css[1].filename, "[chunkhash")
            ELSE /\ out.filename = "[name].js"
                 /\ out.chunkFilename = "[name].async.js"
                 /\ ~Contains(out.filename, "hash")
                 /\ \A i \in 1..Len(css) :
                        css[i].filename = "[name].css" /\ ~Contains(css[i].filename, "hash")

C3_Witness ==
    /\ Returned
    /\ DevMode
    /\ opts.hash = Bool(TRUE)
    /\ config.output.filename = "[name].js"

IsTsLintRule(r) == r.enforce = "pre" /\ r.test = "tsx?"
IsEsLintRule(r) == r.enforce = "pre" /\ r.test = "js|jsx"
HasRule(Test(_)) == \E i \in 1..Len(config.rules) : Test(config.rules[i])
NotPrePass(r) == r.enforce # "pre"

\* C7: each pre-pass rule is in the rule list iff its own disable flag is
\* not set, whatever the other flag is, and the rules that are not pre-pass
\* rules are those of the same call with neither flag set.
C7_PrePassFlags ==
    Returned =>
        /\ HasRule(IsEsLintRule) <=> ~FlagSet(env.DISABLE_ESLINT)
        /\ HasRule(IsTsLintRule) <=> ~FlagSet(env.DISABLE_TSLINT)
        /\ Cardinality(TierAt(1)) =
                (IF FlagSet(env.DISABLE_ESLINT) THEN 0 ELSE 1)
                + (IF FlagSet(env.DISABLE_TSLINT) THEN 0 ELSE 1)
        /\ SelectSeq(config.rules, NotPrePass)
             = SelectSeq(Rules(opts,
                               [env EXCEPT !.DISABLE_ESLINT = Undefined,
                                           !.DISABLE_TSLINT = Undefined],
                               eslintOptions, cssRules),
                         NotPrePass)

C7_Witness ==
    /\ Returned
    /\ FlagSet(env.DISABLE_TSLINT)
    /\ ~FlagSet(env.DISABLE_ESLINT)
    /\ HasRule(IsEsLintRule)
    /\ ~HasRule(IsTsLintRule)

\* p is raw with its trailing separators replaced by exactly one.
OneTrailingSlash(p, raw) ==
    /\ Len(p) >= 1
    /\ SubSeq(p, Len(p), Len(p)) = "/"
    /\ LET stem == SubSeq(p, 1, Len(p) - 1) IN
       /\ Len(stem) = 0 \/ SubSeq(stem, Len(stem), Len(stem)) # "/"
       /\ \E k \in 0..Len(raw) : raw = stem \o Slashes(k)

PublicPathIs(raw) ==
    /\ config.output.publicPath.type = "string"
    /\ OneTrailingSlash(config.output.publicPath.val, raw)

\* C4 as stated: the explicit option first, else the environment override
\* with one trailing separator, else unset.
C4_OptionFirst ==
    Returned =>
        IF OptionSet(opts.publicPath)
        THEN config.output.publicPath = opts.publicPath
        ELSE IF FlagSet(env.PUBLIC_PATH)
             THEN PublicPathIs(env.PUBLIC_PATH.val)
             ELSE config.output.publicPath = Undefined

\* C4, amended: the environment override first (with its trailing
\* separators replaced by exactly one), else the explicit option, else
\* unset; with both set the result is the environment override.
C4_EnvFirst ==
    Returned =>
        IF FlagSet(env.PUBLIC_PATH)
        THEN PublicPathIs(env.PUBLIC_PATH.val)
        ELSE IF OptionSet(opts.publicPath)
             THEN config.output.publicPath = opts.publicPath
             ELSE config.output.publicPath = Undefined

C4_Witness ==
    /\ Returned
    /\ opts.publicPath = Str("/static/")
    /\ env.PUBLIC_PATH = Str("/cdn//")
    /\ config.output.publicPath = Str("/cdn/")

\* The .eslintrc exists and parses; its keys.
RcRead == fs.rcExists /\ fs.rcParses
RcKeys == IF fs.rc.type = "object" THEN DOMAIN fs.rc.val ELSE {}
RcExtends == IF "extends" \in RcKeys THEN fs.rc.val["extends"] ELSE Undefined
DefaultBaseConfig == [k \in {"extends"} |-> Arr(<< "eslint-config-umi" >>)]

\* With a truthy extends the project file replaces the default rule-set.
RcReplaces ==
    /\ eslintOptions.baseConfig = Bool(FALSE)
    /\ eslintOptions.useEslintrc = TRUE
    /\ eslintOptions.ignore = TRUE

\* C5 as stated: with an extends key the defaults are replaced; without
\* one, or with an empty or falsy one, the rule-set holds every default key
\* with its default value and every key of the project file.
C5_SupersetOfDefaults ==
    (Returned /\ RcRead) =>
        IF OptionSet(RcExtends)
        THEN RcReplaces
        ELSE /\ eslintOptions.baseConfig.type = "object"
             /\ \A k \in DOMAIN DefaultBaseConfig :
                    /\ k \in DOMAIN eslintOptions.baseConfig.val
                    /\ eslintOptions.baseConfig.val[k] = DefaultBaseConfig[k]
             /\ \A k \in RcKeys :
                    /\ k \in DOMAIN eslintOptions.baseConfig.val
                    /\ eslintOptions.baseConfig.val[k] = fs.rc.val[k]

\* C5, amended: with a truthy extends the defaults are replaced; otherwise
\* the rule-set holds every key of the project file with the project's
\* value and every other default key with its default value, so that an
\* empty or falsy extends of the project file replaces the default bundle.
C5_ShallowMerge ==
    (Returned /\ RcRead) =>
        IF OptionSet(RcExtends)
        THEN RcReplaces
        ELSE /\ eslintOptions.baseConfig.type = "object"
             /\ eslintOptions.useEslintrc = FALSE
             /\ eslintOptions.ignore = FALSE
             /\ DOMAIN eslintOptions.baseConfig.val = DOMAIN DefaultBaseConfig \cup RcKeys
             /\ \A k \in RcKeys : eslintOptions.baseConfig.val[k] = fs.rc.val[k]
             /\ \A k \in DOMAIN DefaultBaseConfig \ RcKeys :
                    eslintOptions.baseConfig.val[k] = DefaultBaseConfig[k]

C5_Witness ==
    /\ Returned
    /\ RcRead
    /\ RcKeys = {"extends", "rules"}
    /\ RcExtends = Str("")
    /\ eslintOptions.baseConfig.val["extends"] = Str("")

\* package.json declares eslint under dependencies or devDependencies.
DeclaresEslint ==
    /\ fs.pkgReadable
    /\ \E sec \in {"dependencies", "devDependencies"} :
        /\ sec \in DOMAIN fs.pkg.val
        /\ fs.pkg.val[sec].type = "object"
        /\ "eslint" \in DOMAIN fs.pkg.val[sec].val

CwdMissing == opts.cwd.type = "undefined" \/ (opts.cwd.type = "string" /\ opts.cwd.val = "")

\* The modules other than the two preprocessor loaders that this call
\* resolves.
OtherModules ==
    {"style-loader", "css-loader", "postcss-loader", "babel-loader",
     "eslint-config-umi", "eslint", "@babel/runtime/package", "url-loader",
     "awesome-typescript-loader", "file-loader"}
    \cup (IF FlagSet(env.DISABLE_TSLINT) THEN {} ELSE {"tslint-loader"})
    \cup (IF FlagSet(env.DISABLE_ESLINT) THEN {} ELSE {"eslint-loader"})

HasLoader(name) ==
    \E i \in 1..Len(config.rules) :
        \E j \in 1..Len(config.rules[i].use.chain) :
            config.rules[i].use.chain[j].loader = name

Running == pc \notin {"returned", "threw"}

\* The call of a project where this preprocessor loader, and no other
\* module, is not installed does not fail, goes on, and returns rules
\* without the loader.
SoftProbe(name) ==
    (/\ ~CwdMissing
     /\ name \in fs.unresolvable
     /\ ((OtherModules \cup {"less-loader", "sass-loader"}) \ {name})
            \cap fs.unresolvable = {}) =>
        /\ ~Threw
        /\ Running => ENABLED Next
        /\ Returned => ~HasLoader(name)

\* C8 as stated: for each of the two preprocessor loaders, not being
\* resolvable raises no error and the loader is left out of the rules.
C8_BothProbed == SoftProbe("less-loader") /\ SoftProbe("sass-loader")

\* C8, amended: only sass-loader is probed: without it getConfig returns
\* a descriptor whose sass rules have no preprocessor step; without
\* less-loader getConfig fails with the resolver's error before any
\* descriptor is built.
C8_OnlySassProbed ==
    /\ SoftProbe("sass-loader")
    /\ (Returned /\ "sass-loader" \in fs.unresolvable) =>
            \A i \in 1..Len(config.rules) :
                config.rules[i].test = "sass|scss" =>
                    LoaderNames(config.rules[i].use.chain)
                        \in {<< "style-loader", "css-loader", "postcss-loader" >>,
                             << "css-loader", "postcss-loader" >>}
    /\ (~CwdMissing /\ "less-loader" \in fs.unresolvable) =>
            /\ ~Returned
            /\ config = Undefined
            /\ hookCalls = 0
            /\ Threw => error = "Error: Cannot find module"
            /\ Running => ENABLED Next

C8_Witness ==
    /\ Returned
    /\ fs.unresolvable = {"sass-loader"}
    /\ ~HasLoader("sass-loader")
    /\ HasLoader("less-loader")

\* Without a working directory the call fails with the precondition
\* error before anything is built.
FailsWithoutCwd ==
    CwdMissing =>
        /\ pc \in {"assert", "threw"}
        /\ Threw => error = "AssertionError: opts.cwd must be specified"
        /\ config = Undefined
        /\ hookCalls = 0
        /\ Running => ENABLED Next

HasPlugin(name) == \E i \in 1..Len(config.plugins) : config.plugins[i].name = name

\* The value the DefinePlugin entry gives process.env.NODE_ENV.
InjectedMode ==
    LET d == SelectSeq(config.plugins, LAMBDA p : p.name = "DefinePlugin")
    IN  d[1].definitions.val["process.env.NODE_ENV"].val

StylesExtracted ==
    \A i \in 1..Len(config.rules) :
        IsStyleRule(config.rules[i]) => config.rules[i].use.wrapper = "extract"
StylesInjected ==
    \A i \in 1..Len(config.rules) :
        IsStyleRule(config.rules[i]) =>
            /\ config.rules[i].use.wrapper = "none"
            /\ config.rules[i].use.chain[1].loader = "style-loader"

DevPlugins ==
    {"HotModuleReplacementPlugin", "WatchMissingNodeModulesPlugin",
     "SystemBellWebpackPlugin", "SourceMapDevToolPlugin"}
ProdPlugins ==
    {"OccurrenceOrderPlugin", "ModuleConcatenationPlugin", "ExtractTextPlugin",
     "ManifestPlugin"}

\* C10: every descriptor is consistent about its mode: styles are
\* extracted iff the ExtractTextPlugin is present iff hot reload is absent
\* and the injected mode is 'production'; hot reload, the watcher and the
\* notifier are present iff the injected mode is 'development' and styles
\* are injected at runtime; no descriptor mixes the two base sets and the
\* compression plugin is in no development descriptor.
C10_ModeConsistent ==
    Returned =>
        /\ StylesExtracted <=> HasPlugin("ExtractTextPlugin")
        /\ HasPlugin("ExtractTextPlugin") <=>
                (~HasPlugin("HotModuleReplacementPlugin")
                 /\ InjectedMode = "\"production\"")
        /\ (/\ HasPlugin("HotModuleReplacementPlugin")
            /\ HasPlugin("WatchMissingNodeModulesPlugin")
            /\ HasPlugin("SystemBellWebpackPlugin"))
                <=> (InjectedMode = "\"development\"" /\ StylesInjected)
        /\ ~((\E n \in DevPlugins : HasPlugin(n)) /\ (\E n \in ProdPlugins : HasPlugin(n)))
        /\ HasPlugin("UglifyJsPlugin") => ~HasPlugin("HotModuleReplacementPlugin")

====
